---- MODULE Spec2Model ----
(***************************************************************************)
(* evolve-das-upload: the three revisions of the Evolve script that        *)
(* uploads a document to Digital Advantage (DAS).                          *)
(*                                                                         *)
(*   "index"    : src/src/index.ts      (flat input, no output)            *)
(*   "part_000" : src/unnamed/part_000  (Clients[0].Reservation, returns   *)
(*                                       documentId)                       *)
(*   "part_001" : src/unnamed/part_001  (Clients[0], no output)            *)
(*                                                                         *)
(* One run of execute() is modelled as a state machine over the            *)
(* suspension points of the async code.  JavaScript values are modelled as *)
(* tagged records so that property access, JSON.parse, JSON.stringify and  *)
(* string coercion can be computed the way the language computes them.     *)
(***************************************************************************)
EXTENDS Integers, Sequences, FiniteSets, TLC

(***************************************************************************)
(* Bounds                                                                  *)
(***************************************************************************)
\* longest document resource, in bytes
MaxDocLen == 2
\* longest documents list of an endpoint response
MaxDocs == 2

SeqsUpTo(S, n) == UNION {[1..k -> S] : k \in 0..n}

(***************************************************************************)
(* JavaScript values                                                       *)
(***************************************************************************)
Undef == [t |-> "undef"]
Null == [t |-> "null"]
Num(n) == [t |-> "num", n |-> n]
Str(s) == [t |-> "str", s |-> s]
Bool(b) == [t |-> "bool", b |-> b]
Arr(a) == [t |-> "arr", a |-> a]
Obj(f) == [t |-> "obj", f |-> f]
\* a string whose characters are the JSON serialization of the value v
JsonStr(v) == [t |-> "jsonstr", val |-> v]
\* a Promise object (what an un-awaited async call evaluates to)
PromiseObj == [t |-> "promise"]
\* an abrupt completion: the evaluation threw an error named e
Throw(e) == [t |-> "throw", e |-> e]

IsThrow(v) == v.t = "throw"

\* A text (file content, HTTP body): either the serialization of a JSON
\* value, or characters that are not JSON at all.
Text(v) == [json |-> TRUE, val |-> v]
BadText == [json |-> FALSE, val |-> Undef]

\* v.k
Get(v, k) ==
  CASE v.t = "throw" -> v
    [] v.t \in {"undef", "null"} -> Throw("TypeError")
    [] v.t = "obj" -> IF k \in DOMAIN v.f THEN v.f[k] ELSE Undef
    [] OTHER -> Undef

\* v[i], i a zero-based index
Idx(v, i) ==
  CASE v.t = "throw" -> v
    [] v.t \in {"undef", "null"} -> Throw("TypeError")
    [] v.t = "arr" -> IF i + 1 \in DOMAIN v.a THEN v.a[i + 1] ELSE Undef
    [] OTHER -> Undef

\* JSON.parse(text) with text already a string
JSONparseLenient(text) == IF text.json THEN text.val ELSE Obj(<<>>)
JSONparse(text) == IF text.json THEN text.val ELSE Throw("SyntaxError")

\* String(v): the coercion JSON.parse applies to a non-string argument
RECURSIVE StringOf(_)
StringOf(v) ==
  CASE v.t = "jsonstr" -> Text(v.val)
    [] v.t \in {"null", "num", "bool"} -> Text(v)
    [] v.t = "arr" ->
         IF Len(v.a) = 1 /\ v.a[1].t \notin {"null", "undef"}
         THEN StringOf(v.a[1])
         ELSE BadText
    \* "[object Object]", "[object Promise]", "undefined", plain words
    [] OTHER -> BadText

\* The value JSON.stringify writes for v: properties whose value is
\* undefined are dropped, undefined array elements become null, an object
\* without own enumerable properties (a Promise) is written as {}
RECURSIVE StringifyVal(_)
StringifyVal(v) ==
  CASE v.t = "obj" ->
         Obj([k \in {x \in DOMAIN v.f : v.f[x].t # "undef"} |->
                StringifyVal(v.f[k])])
    [] v.t = "arr" ->
         Arr([i \in DOMAIN v.a |->
                IF v.a[i].t = "undef" THEN Null ELSE StringifyVal(v.a[i])])
    [] v.t = "promise" -> Obj(<<>>)
    [] OTHER -> v

JSONstringify(v) == Text(StringifyVal(v))

(***************************************************************************)
(* File.readAsBase64: standard base64 of the resource's bytes              *)
(***************************************************************************)
B64Chars ==
  << "A","B","C","D","E","F","G","H","I","J","K","L","M","N","O","P",
     "Q","R","S","T","U","V","W","X","Y","Z","a","b","c","d","e","f",
     "g","h","i","j","k","l","m","n","o","p","q","r","s","t","u","v",
     "w","x","y","z","0","1","2","3","4","5","6","7","8","9","+","/" >>

B64(n) == B64Chars[(n % 64) + 1]

RECURSIVE Base64(_)
Base64(bytes) ==
  IF Len(bytes) = 0 THEN ""
  ELSE IF Len(bytes) = 1 THEN
    LET n == bytes[1] * 65536
    IN B64(n \div 262144) \o B64(n \div 4096) \o "=="
  ELSE IF Len(bytes) = 2 THEN
    LET n == bytes[1] * 65536 + bytes[2] * 256
    IN B64(n \div 262144) \o B64(n \div 4096) \o B64(n \div 64) \o "="
  ELSE
    LET n == bytes[1] * 65536 + bytes[2] * 256 + bytes[3]
    IN B64(n \div 262144) \o B64(n \div 4096) \o B64(n \div 64) \o B64(n)
       \o Base64(SubSeq(bytes, 4, Len(bytes)))

(***************************************************************************)
(* Inputs of one run                                                       *)
(***************************************************************************)
Variants == {"index", "part_000", "part_001"}

\* The reservation fields the script reads, written with two sets of values
Stays ==
  { [hotel |-> "Grand Hotel", checkIn |-> "2023-05-01",
     checkOut |-> "2023-05-03", guests |-> 2, points |-> 150,
     confirmation |-> 1234, client |-> "c-9"],
    [hotel |-> "Ritz", checkIn |-> "2024-01-10",
     checkOut |-> "2024-01-11", guests |-> 1, points |-> 0,
     confirmation |-> 77, client |-> "c-1"] }

Without(f, k) == [x \in DOMAIN f \ {k} |-> f[x]]

\* the flat input shape read by index.ts (jsonData.hotelName, ...)
FlatFields(s) ==
  [hotelName |-> Str(s.hotel), checkInDate |-> Str(s.checkIn),
   checkOutDate |-> Str(s.checkOut), guests |-> Num(s.guests),
   points |-> Num(s.points), confirmationNumber |-> Num(s.confirmation),
   guestClientId |-> Str(s.client)]

\* the nested shape of the Reservation / Client interfaces (data.hotel.name)
NestedFields(s) ==
  [hotel |-> Obj([name |-> Str(s.hotel)]), checkInDate |-> Str(s.checkIn),
   checkOutDate |-> Str(s.checkOut), guests |-> Num(s.guests),
   points |-> Num(s.points), confirmationNumber |-> Num(s.confirmation),
   guestClientId |-> Str(s.client)]

\* { ...fields } for index.ts
FlatInput(f) == Obj(f)
\* { Clients: [ { ClientID, Reservation: {...fields} } ] } for part_000
ReservationInput(f) ==
  Obj([Clients |-> Arr(<< Obj([ClientID |-> Str("cl"),
                               Reservation |-> Obj(f)]) >>)])
\* { Clients: [ { ClientID, ...fields } ] } for part_001
ClientInput(f) ==
  Obj([Clients |-> Arr(<< Obj(f @@ [ClientID |-> Str("cl")]) >>)])

\* the input a revision is written for
ValidInput(v, s) ==
  CASE v = "index" -> FlatInput(FlatFields(s))
    [] v = "part_000" -> ReservationInput(NestedFields(s))
    [] v = "part_001" -> ClientInput(NestedFields(s))

\* the same input with one reservation field left out
InputWithout(v, s, k) ==
  CASE v = "index" -> FlatInput(Without(FlatFields(s), k))
    [] v = "part_000" -> ReservationInput(Without(NestedFields(s), k))
    [] v = "part_001" -> ClientInput(Without(NestedFields(s), k))

RequiredFields(v) ==
  {"checkInDate", "checkOutDate", "guests", "points", "confirmationNumber",
   "guestClientId"} \cup (IF v = "index" THEN {"hotelName"} ELSE {"hotel"})

\* valid JSON with no client entry at all
NoClientInputs ==
  { Obj([Clients |-> Arr(<<>>)]), Obj(<<>>), Null }

FirstStay == CHOOSE s \in Stays : s.hotel = "Grand Hotel"

\* JSON values an input data resource may hold
InputValues ==
  {ValidInput(v, s) : v \in Variants, s \in Stays}
    \cup {InputWithout(v, FirstStay, k) : v \in Variants,
            k \in RequiredFields("index") \cup RequiredFields("part_000")}
    \cup { FlatInput(Without(FlatFields(FirstStay), "confirmationNumber")
                       @@ [reservationNumber |-> Num(1234)]) }
    \cup NoClientInputs

\* An input data resource: unreadable, not JSON, or JSON
InputFiles ==
  { [readable |-> FALSE, text |-> BadText],
    [readable |-> TRUE, text |-> BadText] }
    \cup { [readable |-> TRUE, text |-> Text(v)] : v \in InputValues }

DocByteValues == {77, 255}

\* A document resource: unreadable, or some bytes
DocFiles ==
  { [readable |-> FALSE, bytes |-> <<>>] }
    \cup { [readable |-> TRUE, bytes |-> b] :
             b \in SeqsUpTo(DocByteValues, MaxDocLen) }

ApplicationIds == {"app-1"}

(***************************************************************************)
(* Endpoint responses                                                      *)
(***************************************************************************)
StatusTexts == [s \in {200, 404, 502} |->
                  CASE s = 200 -> "OK"
                    [] s = 404 -> "Not Found"
                    [] s = 502 -> "Bad Gateway"]

DocIndexValues == {0, 1}
DocIdValues == {41, 42}

DocumentProps == { Obj([documentIndex |-> Num(i), id |-> Num(d)]) :
                     i \in DocIndexValues, d \in DocIdValues }

\* {eventId, documents: [...]}
UploadResponses ==
  { Obj([eventId |-> Str("ev"), documents |-> Arr(ds)]) :
      ds \in SeqsUpTo(DocumentProps, MaxDocs) }

\* bodies an endpoint may answer with: not JSON, null, an object without
\* documents, an upload response, or an upload response serialized twice
ResponseBodies ==
  { BadText, Text(Null), Text(Obj([eventId |-> Str("ev")])) }
    \cup { Text(r) : r \in UploadResponses }
    \cup { Text(JsonStr(r)) : r \in UploadResponses }

Responses ==
  { [status |-> s, statusText |-> StatusTexts[s], body |-> b] :
      s \in DOMAIN StatusTexts, b \in ResponseBodies }

\* Response.ok
Ok(response) == response.status \in 200..299

(***************************************************************************)
(* Field mapping                                                           *)
(***************************************************************************)
\* the record execute hands to uploadDocument
SelectData(v, input) ==
  CASE v = "index" -> input
    [] v = "part_000" -> Get(Idx(Get(input, "Clients"), 0), "Reservation")
    [] v = "part_001" -> Idx(Get(input, "Clients"), 0)

HotelName(v, data) ==
  IF v = "index" THEN Get(data, "hotelName")
  ELSE Get(Get(data, "hotel"), "name")

ReservationNumber(v, data) ==
  IF v = "index" THEN Get(data, "reservationNumber")
  ELSE Get(data, "confirmationNumber")

MetaEntry(name, type, value) ==
  Obj([name |-> Str(name), type |-> Str(type), value |-> value,
       isReadOnly |-> Bool(TRUE)])

Metadata(v, data) ==
  << MetaEntry("type", "Text", Str("reward_activity")),
     MetaEntry("hotelName", "Text", HotelName(v, data)),
     MetaEntry("checkIn", "Text", Get(data, "checkInDate")),
     MetaEntry("checkOut", "Text", Get(data, "checkOutDate")),
     MetaEntry("guests", "Number", Get(data, "guests")),
     MetaEntry("points", "Number", Get(data, "points")),
     MetaEntry("reservationNumber", "Number", ReservationNumber(v, data)) >>

\* the property reads of the body literal, in evaluation order
FieldReads(v, data) ==
  << Get(data, "guestClientId"), HotelName(v, data),
     Get(data, "checkInDate"), Get(data, "checkOutDate"),
     Get(data, "guests"), Get(data, "points"), ReservationNumber(v, data) >>

\* the body literal of uploadDocument, or the TypeError a property read of
\* undefined raises while it is evaluated
BuildBody(v, data, appId, fileContent) ==
  IF \E i \in 1..7 : IsThrow(FieldReads(v, data)[i])
  THEN Throw("TypeError")
  ELSE Obj([documents |-> Arr(<<
         Obj([clientAccessRights |->
                Arr(<< Obj([clientId |-> Get(data, "guestClientId"),
                            right |-> Str("Delete")]) >>),
              fileName |-> Str(IF v = "index" THEN "string"
                                ELSE "invoice.pdf"),
              name |-> Str(IF v = "index" THEN "string" ELSE "Invoice"),
              applicationId |-> Str(appId),
              publicAccessRight |-> Str("None"),
              metadata |-> Arr(Metadata(v, data)),
              fileContent |-> fileContent]) >>)])

\* body with the fileContent of its single document replaced
WithFileContent(b, fileContent) ==
  LET doc == b.f.documents.a[1]
  IN Obj([documents |->
            Arr(<< Obj([doc.f EXCEPT !.fileContent = fileContent]) >>)])

\* documents.forEach(callback): calls the callback on every element and
\* discards what it returns; the result is always undefined.  A TypeError
\* is raised when documents is not an array or an element is null/undefined.
ForEachDocument(documents) ==
  IF documents.t # "arr" THEN Throw("TypeError")
  ELSE IF \E i \in DOMAIN documents.a :
            IsThrow(Get(documents.a[i], "documentIndex"))
       THEN Throw("TypeError")
       ELSE Undef

getDocumentId(response) ==
  LET documents == Get(response, "documents")
      loop == IF IsThrow(documents) THEN documents
              ELSE ForEachDocument(documents)
  IN IF IsThrow(loop) THEN loop
     ELSE Throw("MissingIdentifierError")

(***************************************************************************)
(* State                                                                   *)
(***************************************************************************)
VARIABLES
  variant,        \* which revision of the script runs
  inputFile,      \* the resource at parameters.inputDataPath
  docFile,        \* the resource at parameters.documentPath
  applicationId,  \* parameters.applicationId
  pc,             \* where execute is
  data,           \* the record handed to uploadDocument
  body,           \* the body literal
  docRead,        \* state of the readDocumentAsBase64 promise
  posts,          \* number of fetch(..., {method: 'POST'}) calls issued
  request,        \* the serialized body of the POST
  response,       \* what fetch resolved to
  json,           \* what response.json() resolved to
  outcome,        \* how the promise of execute settled
  error,          \* status, statusText and body of the Non-OK error
  documentId      \* the documentId output

vars == << variant, inputFile, docFile, applicationId, pc, data, body,
           docRead, posts, request, response, json, outcome, error,
           documentId >>

NoResponse == [status |-> 0, statusText |-> "", body |-> BadText]
NoError == [status |-> 0, statusText |-> "", body |-> BadText]

Init ==
  /\ variant \in Variants
  /\ inputFile \in InputFiles
  /\ docFile \in DocFiles
  /\ applicationId \in ApplicationIds
  /\ pc = "readInput"
  /\ data = Undef
  /\ body = Undef
  /\ docRead = "idle"
  /\ posts = 0
  /\ request = BadText
  /\ response = NoResponse
  /\ json = Undef
  /\ outcome = "pending"
  /\ error = NoError
  /\ documentId = Undef

\* execute rejects with the error named e
Fail(e) ==
  /\ pc' = "done"
  /\ outcome' = e

\* the error name of the spec for a SyntaxError of the input JSON.parse
InputError(e) == IF e = "SyntaxError" THEN "ParseError" ELSE e
\* a SyntaxError raised while the response is parsed
ResponseError(e) == IF e = "SyntaxError" THEN "ResponseSyntaxError" ELSE e

(***************************************************************************)
(* Steps of execute                                                        *)
(***************************************************************************)
\* await context.getFile(inputDataPath).read()
ReadInputFile ==
  /\ pc = "readInput"
  /\ IF inputFile.readable
     THEN pc' = "parseInput" /\ UNCHANGED outcome
     ELSE Fail("ResourceReadError")
  /\ UNCHANGED << variant, inputFile, docFile, applicationId, data, body,
                  docRead, posts, request, response, json, error,
                  documentId >>

\* JSON.parse of the input and the selection of the record
ParseInput ==
  /\ pc = "parseInput"
  /\ LET input == JSONparse(inputFile.text)
         d == SelectData(variant, input)
     IN IF IsThrow(d)
        THEN Fail(InputError(d.e)) /\ UNCHANGED data
        ELSE pc' = "buildBody" /\ data' = d /\ UNCHANGED outcome
  /\ UNCHANGED << variant, inputFile, docFile, applicationId, body,
                  docRead, posts, request, response, json, error,
                  documentId >>

\* the body literal up to the call of readDocumentAsBase64: index.ts stores
\* the promise itself and goes on, the later revisions await it
StartUpload ==
  /\ pc = "buildBody"
  /\ LET b == BuildBody(variant, data, applicationId, PromiseObj)
     IN IF IsThrow(b)
        THEN Fail(b.e) /\ UNCHANGED << body, docRead >>
        ELSE /\ body' = b
             /\ docRead' = "pending"
             /\ pc' = IF variant = "index" THEN "send" ELSE "awaitDoc"
             /\ UNCHANGED outcome
  /\ UNCHANGED << variant, inputFile, docFile, applicationId, data, posts,
                  request, response, json, error, documentId >>

\* fileContent: await readDocumentAsBase64(context)
AwaitDocument ==
  /\ pc = "awaitDoc"
  /\ variant # "index"
  /\ docRead = "pending"
  /\ IF docFile.readable
     THEN /\ docRead' = "fulfilled"
          /\ body' = WithFileContent(body, Str(Base64(docFile.bytes)))
          /\ pc' = "send"
          /\ UNCHANGED outcome
     ELSE /\ docRead' = "rejected"
          /\ Fail("ResourceReadError")
          /\ UNCHANGED body
  /\ UNCHANGED << variant, inputFile, docFile, applicationId, data, posts,
                  request, response, json, error, documentId >>

\* index.ts: the promise nobody awaits settles while execute is suspended
\* at a later await, or after it has ended
DetachedDocumentRead ==
  /\ variant = "index"
  /\ docRead = "pending"
  /\ pc \in {"awaitFetch", "awaitJson", "done"}
  /\ docRead' = IF docFile.readable THEN "fulfilled" ELSE "rejected"
  /\ UNCHANGED << variant, inputFile, docFile, applicationId, pc, data,
                  body, posts, request, response, json, outcome, error,
                  documentId >>

\* fetch(url, {method: 'POST', headers, body: JSON.stringify(body)})
SendRequest ==
  /\ pc = "send"
  /\ request' = JSONstringify(body)
  /\ posts' = posts + 1
  /\ pc' = "awaitFetch"
  /\ UNCHANGED << variant, inputFile, docFile, applicationId, data, body,
                  docRead, response, json, outcome, error, documentId >>

\* the fetch promise settles: a response of any status, or a network error
FetchSettles ==
  /\ pc = "awaitFetch"
  /\ \/ /\ \E r \in Responses : response' = r
        /\ pc' = "awaitJson"
        /\ UNCHANGED outcome
     \/ /\ Fail("NetworkError")
        /\ UNCHANGED response
  /\ UNCHANGED << variant, inputFile, docFile, applicationId, data, body,
                  docRead, posts, request, json, error, documentId >>

\* const json = await response.json()
ResponseJson ==
  /\ pc = "awaitJson"
  /\ LET j == JSONparse(response.body)
     IN IF IsThrow(j)
        THEN Fail(ResponseError(j.e)) /\ UNCHANGED json
        ELSE json' = j /\ pc' = "checkStatus" /\ UNCHANGED outcome
  /\ UNCHANGED << variant, inputFile, docFile, applicationId, data, body,
                  docRead, posts, request, response, error, documentId >>

\* a revision that sends the request again after a non-OK answer
CheckStatusRetry ==
  /\ pc = "checkStatus"
  /\ IF ~Ok(response)
     THEN /\ pc' = IF posts < 2 THEN "send" ELSE "done"
          /\ outcome' = IF posts < 2 THEN outcome ELSE "RemoteUploadError"
          /\ error' = [status |-> response.status,
                       statusText |-> response.statusText,
                       body |-> JSONstringify(json)]
     ELSE /\ pc' = IF variant = "part_000" THEN "parseResponse" ELSE "done"
          /\ outcome' = IF variant = "part_000" THEN outcome ELSE "success"
          /\ UNCHANGED error
  /\ UNCHANGED << variant, inputFile, docFile, applicationId, data, body,
                  docRead, posts, request, response, json, documentId >>

\* if (!response.ok) throw new Error(`Non-OK DAS API response: ...`)
CheckStatus ==
  /\ pc = "checkStatus"
  /\ IF ~Ok(response)
     THEN /\ Fail("RemoteUploadError")
          /\ error' = [status |-> response.status,
                       statusText |-> response.statusText,
                       body |-> JSONstringify(json)]
     ELSE /\ pc' = IF variant = "part_000" THEN "parseResponse" ELSE "done"
          /\ outcome' = IF variant = "part_000" THEN outcome ELSE "success"
          /\ UNCHANGED error
  /\ UNCHANGED << variant, inputFile, docFile, applicationId, data, body,
                  docRead, posts, request, response, json, documentId >>

\* part_000: return JSON.parse(json), then documentId: getDocumentId(...)
ReturnDocumentId ==
  /\ pc = "parseResponse"
  /\ variant = "part_000"
  /\ LET parsed == JSONparse(StringOf(json))
         id == IF IsThrow(parsed) THEN parsed ELSE getDocumentId(parsed)
     IN IF IsThrow(id)
        THEN Fail(ResponseError(id.e)) /\ UNCHANGED documentId
        ELSE pc' = "done" /\ outcome' = "success" /\ documentId' = id
  /\ UNCHANGED << variant, inputFile, docFile, applicationId, data, body,
                  docRead, posts, request, response, json, error >>

Next ==
  \/ ReadInputFile
  \/ ParseInput
  \/ StartUpload
  \/ AwaitDocument
  \/ DetachedDocumentRead
  \/ SendRequest
  \/ FetchSettles
  \/ ResponseJson
  \/ CheckStatus
  \/ ReturnDocumentId

Spec == Init /\ [][Next]_vars

(***************************************************************************)
(* Properties                                                              *)
(***************************************************************************)
\* the input resource is the input the running revision is written for
InputIsValid == \E s \in Stays : inputFile.text = Text(ValidInput(variant, s))

\* the input resource is readable but not JSON
InputIsMalformed == inputFile.readable /\ ~inputFile.text.json

\* the input resource is JSON that lacks a reservation field or the client
InputLacksField ==
  /\ inputFile.readable
  /\ ~InputIsValid
  /\ \/ \E k \in RequiredFields(variant) :
          inputFile.text = Text(InputWithout(variant, FirstStay, k))
     \/ variant # "index" /\ inputFile.text.json
          /\ inputFile.text.val \in NoClientInputs

Received == response # NoResponse

\* the response body is a well-formed upload response
WellFormed(b) == b.json /\ b.val \in UploadResponses

\* ids of the entries of a well-formed body whose documentIndex is 0
IndexZeroIds(b) ==
  { Get(b.val.f.documents.a[i], "id") :
      i \in { j \in DOMAIN b.val.f.documents.a :
                Get(b.val.f.documents.a[j], "documentIndex") = Num(0) } }

\* the single document of the request that was sent
SentDocument == request.val.f.documents.a[1]

\* the seven metadata entries the endpoint expects for a stay
ExpectedMetadata(s) ==
  Arr(<< MetaEntry("type", "Text", Str("reward_activity")),
         MetaEntry("hotelName", "Text", Str(s.hotel)),
         MetaEntry("checkIn", "Text", Str(s.checkIn)),
         MetaEntry("checkOut", "Text", Str(s.checkOut)),
         MetaEntry("guests", "Number", Num(s.guests)),
         MetaEntry("points", "Number", Num(s.points)),
         MetaEntry("reservationNumber", "Number", Num(s.confirmation)) >>)

\* C1: in part_000, a valid input and a 200 response with a well-formed
\* body holding an entry with documentIndex 0 end in success with the
\* documentId of that entry.
C1_ReturnsIdAtIndexZero ==
  ( /\ variant = "part_000"
    /\ pc = "done"
    /\ InputIsValid
    /\ Received
    /\ response.status = 200
    /\ WellFormed(response.body)
    /\ IndexZeroIds(response.body) # {} )
  => /\ outcome = "success"
     /\ documentId \in IndexZeroIds(response.body)

\* C2: every non-2xx response, whatever its body, ends execute in the
\* Non-OK error carrying the response's status and status text.
C2_NonOkIsRemoteUploadError ==
  (pc = "done" /\ Received /\ ~Ok(response))
  => /\ outcome = "RemoteUploadError"
     /\ error.status = response.status
     /\ error.statusText = response.statusText

\* C3: part_000 fails with 'No document ID found in upload response'
\* exactly when the endpoint answered a success status with a documents
\* list that has no entry with documentIndex 0.
C3_MissingIdentifierExactly ==
  (variant = "part_000" /\ pc = "done")
  => ( outcome = "MissingIdentifierError"
       <=> ( /\ Received
             /\ Ok(response)
             /\ WellFormed(response.body)
             /\ IndexZeroIds(response.body) = {} ) )

\* C4: when the input resource is not valid JSON, no POST is ever issued,
\* the document read is never started, and execute ends with a parse error.
C4_MalformedInputNeverPosts ==
  InputIsMalformed
  => /\ posts = 0
     /\ docRead = "idle"
     /\ pc \in {"readInput", "parseInput", "done"}
     /\ (pc = "done" => outcome = "ParseError")

C4_Witness == InputIsMalformed /\ pc = "done" /\ outcome = "ParseError"

\* C5: at most one POST is issued by a run, and once an answer has been
\* received (whatever its status) exactly one has been issued.
C5_AtMostOnePost ==
  /\ posts <= 1
  /\ (Received => posts = 1)

C5_Witness ==
  pc = "done" /\ outcome = "RemoteUploadError" /\ posts = 1 /\ ~Ok(response)

\* C6: whenever a POST is issued, the fileContent of the single document of
\* the serialized body is the base64 encoding of the document's bytes.
C6_FileContentIsBase64 ==
  posts > 0
  => Get(SentDocument, "fileContent") = Str(Base64(docFile.bytes))

\* C7: for every reservation record, the metadata of the request is the
\* seven entries type, hotelName, checkIn, checkOut, guests, points,
\* reservationNumber with the record's values, the last being its
\* confirmationNumber.
C7_MetadataIsFixedSchema ==
  \A s \in Stays :
    (posts > 0 /\ inputFile.text = Text(ValidInput(variant, s)))
    => Get(SentDocument, "metadata") = ExpectedMetadata(s)

\* C8: when the document resource cannot be read, no POST is issued and
\* execute ends with the read error.
C8_UnreadableDocumentFails ==
  (inputFile.readable /\ InputIsValid /\ ~docFile.readable)
  => /\ posts = 0
     /\ (pc = "done" => outcome = "ResourceReadError")

\* C9: the POST is issued only after the document read has completed: the
\* read is never pending while the request is in flight.
C9_PostAfterDocumentRead ==
  pc = "awaitFetch" => docRead = "fulfilled"

\* C10: when the input is valid JSON lacking a required reservation field
\* or the client entry, no POST is issued and execute ends with a parse
\* error.
C10_MissingFieldIsParseError ==
  InputLacksField
  => /\ posts = 0
     /\ (pc = "done" => outcome = "ParseError")

====
